---- MODULE Spec2Model ----
(***************************************************************************)
(* astro-core (src/src/lib.rs): the ephemeris path registry                *)
(* (EPHE_PATH, set_ephe_path, apply_ephe_path), the chart pipeline         *)
(* (calculate_core_chart and its three engine wrappers) and the sign       *)
(* mapper (sign_name_from_longitude).                                      *)
(*                                                                         *)
(* Threads call set_ephe_path and calculate_core_chart concurrently.  A    *)
(* step of a thread is one statement of the source between two points      *)
(* where another thread can observe or change shared state: the mutex,     *)
(* the stored String, and the engine's global path slot.  The Swiss        *)
(* Ephemeris engine is foreign code: each of its calls returns any         *)
(* outcome its declared interface allows.                                  *)
(***************************************************************************)
EXTENDS Integers, Sequences, FiniteSets, TLC

\* ------------------------------------------------------------- bounds
NumThreads == 2      \* threads calling into the crate
MaxCalls == 2        \* public calls started by concurrent threads, all together
MaxSeqCalls == 4      \* public calls a single caller makes one after the other
MaxRepeatCalls == 3   \* the same when the caller repeats calls
PathLen == 2         \* characters of every non-empty path a caller passes
MaxLon == 400        \* sign mapper inputs range over -MaxLon..MaxLon degrees
MaxK == 2            \* periodicity is tried for k in -MaxK..MaxK

Threads == 1..NumThreads
NoThread == 0

\* ------------------------------------------------------------- ffi constants
SE_SUN == 0
SE_MOON == 1
SE_ASC == 0
SE_GREG_CAL == 1
SEFLG_SWIEPH == 2
AS_MAXCH == 256
HSYS_P == 80        \* 'P' as c_int: Placidus

\* ------------------------------------------------------------- text and paths
\* A path is a sequence of characters; NUL is the byte 0.
NUL == "\\0"
EmptyPath == <<>>
ValidPaths == {[i \in 1..PathLen |-> c] : c \in {"a", "b"}}
InvalidPaths == {[i \in 1..PathLen |-> IF i = 1 THEN "a" ELSE NUL]}
Paths == ValidPaths \cup InvalidPaths

HasNul(s) == \E i \in DOMAIN s : s[i] = NUL

\* a conversion that lets every byte through (CString::from_vec_unchecked)
CStringUnchecked(s) == [ok |-> TRUE, v |-> s]

\* Result<CString, NulError>: CString::new fails on any 0 byte in its input.
CStringNew(s) == IF HasNul(s) THEN [ok |-> FALSE, v |-> <<>>] ELSE [ok |-> TRUE, v |-> s]

\* ------------------------------------------------------------- f64
\* An f64 is a finite number (here: whole degrees, exact in f64), NaN or an infinity.
Num(n) == [cls |-> "num", v |-> n]
NaN == [cls |-> "nan", v |-> 0]
PosInf == [cls |-> "inf", v |-> 1]
NegInf == [cls |-> "inf", v |-> -1]

\* Rust's % on f64 is fmod: the remainder has the sign of the dividend;
\* fmod of NaN or of an infinity is NaN.
TruncRem(a, m) == IF a >= 0 THEN a % m ELSE -((-a) % m)
F64Rem(x, m) == IF x.cls = "num" THEN Num(TruncRem(x.v, m)) ELSE NaN
\* x < 0.0 is false for NaN.
F64Neg(x) == (x.cls = "num" /\ x.v < 0) \/ x = NegInf
F64Add(x, n) == IF x.cls = "num" THEN Num(x.v + n) ELSE x
\* (x / d).floor() as usize for a remainder x (never infinite): the cast
\* saturates, so NaN and negative values become 0.
F64DivFloorUsize(x, d) ==
    IF x.cls # "num" THEN 0
    ELSE IF x.v < 0 THEN 0 ELSE x.v \div d

\* ------------------------------------------------------------- sign mapper
ZODIAC_SIGNS ==
    << "aries", "taurus", "gemini", "cancer", "leo", "virgo",
       "libra", "scorpio", "sagittarius", "capricorn", "aquarius", "pisces" >>

\* the same without the reduction into [0, 360) and with a default for an
\* index outside the table
sign_unnormalised(lon) ==
    LET index == F64DivFloorUsize(lon, 30)
    IN  IF index < Len(ZODIAC_SIGNS) THEN ZODIAC_SIGNS[index + 1] ELSE ""

\* the same rounding to the nearest sector start instead of flooring
sign_rounded(lon) ==
    LET norm0 == F64Rem(lon, 360)
        norm == IF F64Neg(norm0) THEN F64Add(norm0, 360) ELSE norm0
        index == F64DivFloorUsize(F64Add(norm, 15), 30) % Len(ZODIAC_SIGNS)
    IN  ZODIAC_SIGNS[index + 1]

\* the same without the forward wrap of a negative remainder
sign_no_wrap(lon) ==
    LET norm == F64Rem(lon, 360)
        index == F64DivFloorUsize(norm, 30) % Len(ZODIAC_SIGNS)
    IN  ZODIAC_SIGNS[index + 1]

sign_name_from_longitude(lon) ==
    LET norm0 == F64Rem(lon, 360)
        norm == IF F64Neg(norm0) THEN F64Add(norm0, 360) ELSE norm0
        index == F64DivFloorUsize(norm, 30) % Len(ZODIAC_SIGNS)
    IN  ZODIAC_SIGNS[index + 1]

\* ------------------------------------------------------------- results
NoChart == <<>>
NoResult == [tag |-> "None", kind |-> "", text |-> "", chart |-> NoChart]
Ok(chart) == [tag |-> "Ok", kind |-> "", text |-> "", chart |-> chart]
Err(kind, text) == [tag |-> "Err", kind |-> kind, text |-> text, chart |-> NoChart]
Returned == [tag |-> "Returned", kind |-> "", text |-> "", chart |-> NoChart]
\* A panic unwinds out of the call to the thread or catch_unwind boundary; the
\* thread (or another one in its place) may call again.
Panic(text) == [tag |-> "Panic", kind |-> "", text |-> text, chart |-> NoChart]

\* AstroError variants
EphemerisError == "EphemerisError"
InvalidInput == "InvalidInput"

\* ------------------------------------------------------------- the engine
\* Status codes: negative is failure; swe_calc_ut answers the flags it used.
RCs == {-1, 0, SEFLG_SWIEPH}
\* Diagnostic buffers the engine may leave in serr: untouched (all zero), or a
\* NUL-terminated message.
Buf(msg) == [i \in 1..AS_MAXCH |-> IF i <= Len(msg) THEN msg[i] ELSE NUL]
\* serr as the engine leaves it: untouched, a message, a message followed by
\* leftovers behind its terminator, a message with a byte that is not UTF-8,
\* a message that fills the buffer and has no terminator
SerrBufs == {Buf(<<>>), Buf(<<"e", "r", "r">>), Buf(<<"e", NUL, "r">>),
             Buf(<<"\\xFF", "r">>), [i \in 1..AS_MAXCH |-> "e"]}
NoSerr == <<>>
\* dret = [ephemeris time, universal time]
Drets == {<<2447893, 2447892>>, <<2448088, 2448087>>}
\* longitudes the engine may answer: negative, in range, 360 and above, not a
\* number, infinite
EngineLons == {Num(-10), Num(45), Num(360), NaN, PosInf}
OtherComponent == Num(200)
\* What the engine may answer in a behaviour.  The chart pipeline is explored
\* with every outcome; where threads interleave only success and failure of
\* each stage matter, and one value of each kind is enough.
\* memo: the engine answers one question (function, arguments, configured
\* path) the same way every time it is asked
FullEngine == [rcs |-> RCs, drets |-> Drets, serrs |-> SerrBufs, lons |-> EngineLons,
               memo |-> FALSE]
PlainEngine == [rcs |-> RCs, drets |-> {<<2447893, 2447892>>},
                serrs |-> {Buf(<<>>)}, lons |-> {Num(45)}, memo |-> FALSE]
FunctionEngine == [rcs |-> {-1, 0}, drets |-> {<<2447893, 2447892>>}, serrs |-> {Buf(<<"e", "r", "r">>)},
                   lons |-> {Num(-10), Num(45)}, memo |-> TRUE]
\* xx = [longitude, latitude, distance, speeds]; ascmc = [ascendant, mc, ...]
XX(l) == <<l, OtherComponent, OtherComponent, OtherComponent, OtherComponent, OtherComponent>>
Ascmc(a) == <<a>> \o [i \in 1..9 |-> OtherComponent]

\* swe_set_ephe_path(path): the engine's global path slot takes the C string.
swe_set_ephe_path(slot, c_str) == c_str
EngineUnset == <<"?">>

\* ------------------------------------------------------------- birth data
\* lat and lon in units of 1e-4 degree
ValidBirths ==
    { [year |-> 1990, month |-> 1, day |-> 1, hour |-> 0, minute |-> 0,
       second |-> 0, lat |-> 0, lon |-> 0],
      [year |-> 1990, month |-> 7, day |-> 15, hour |-> 10, minute |-> 30,
       second |-> 0, lat |-> 407128, lon |-> -740060] }
\* no such month: the crate passes it on unvalidated
Births ==
    ValidBirths \cup
    { [year |-> 1990, month |-> 13, day |-> 1, hour |-> 0, minute |-> 0,
       second |-> 0, lat |-> 0, lon |-> 0] }
\* A call's argument: the path of set_ephe_path or the BirthData of
\* calculate_core_chart; the other field is blank.
NoBirth == [year |-> 0, month |-> 0, day |-> 0, hour |-> 0, minute |-> 0,
            second |-> 0, lat |-> 0, lon |-> 0]
PathArg(p) == [path |-> p, birth |-> NoBirth]
BirthArg(b) == [path |-> EmptyPath, birth |-> b]
NoArg == PathArg(EmptyPath)

\* ------------------------------------------------------------- engine wrappers
\* Result<f64, AstroError>
ROk(v) == [ok |-> TRUE, v |-> v, err |-> NoResult]
RErr(e) == [ok |-> FALSE, v |-> NaN, err |-> e]

\* buf.iter().position(|&c| c == 0).unwrap_or(buf.len()), counted from 1
FirstNul(buf) ==
    IF \E i \in 1..Len(buf) : buf[i] = NUL
    THEN CHOOSE i \in 1..Len(buf) : buf[i] = NUL /\ \A j \in 1..(i - 1) : buf[j] # NUL
    ELSE Len(buf) + 1

\* String::from_utf8_lossy: ASCII bytes stand for themselves, a byte that is
\* not UTF-8 becomes the replacement character U+FFFD.
BadByte == "\\xFF"
Replacement == "\\uFFFD"
RECURSIVE Lossy(_)
Lossy(bytes) ==
    IF bytes = <<>> THEN ""
    ELSE IF Len(bytes) = 1
    THEN (IF bytes[1] = BadByte THEN Replacement ELSE bytes[1])
    ELSE LET h == Len(bytes) \div 2
         IN  Lossy(SubSeq(bytes, 1, h)) \o Lossy(SubSeq(bytes, h + 1, Len(bytes)))

\* the buffer's text with no placeholder for the empty one
error_string_raw(buf) == Lossy(SubSeq(buf, 1, FirstNul(buf) - 1))

error_string(buf) ==
    LET nul == FirstNul(buf)
        bytes == SubSeq(buf, 1, nul - 1)
    IN  IF bytes = <<>> THEN "unknown Swiss Ephemeris error" ELSE Lossy(bytes)

\* the time conversion with the status ignored
julian_day_ut_unchecked(rc, dret, serr) == ROk(dret[2])

\* the time conversion answering ephemeris time, dret[0]
julian_day_ut_et(rc, dret, serr) ==
    IF rc < 0 THEN RErr(Err(EphemerisError, error_string(serr))) ELSE ROk(dret[1])

julian_day_ut(rc, dret, serr) ==
    IF rc < 0 THEN RErr(Err(EphemerisError, error_string(serr))) ELSE ROk(dret[2])

\* the same with the status ignored
body_longitude_unchecked(rc, xx, serr) == ROk(xx[1])

body_longitude(rc, xx, serr) ==
    IF rc < 0 THEN RErr(Err(EphemerisError, error_string(serr))) ELSE ROk(xx[1])

ascendant_longitude(rc, ascmc) ==
    IF rc < 0 THEN RErr(Err(EphemerisError, "failed to compute ascendant"))
    ELSE ROk(ascmc[SE_ASC + 1])

\* the chart with the Sun and the Moon in each other's field
CoreChartSwapped(sun_l, moon_l, asc_l) ==
    [sun_sign |-> sign_name_from_longitude(moon_l),
     moon_sign |-> sign_name_from_longitude(sun_l),
     asc_sign |-> sign_name_from_longitude(asc_l)]

CoreChart(sun_l, moon_l, asc_l) ==
    [sun_sign |-> sign_name_from_longitude(sun_l),
     moon_sign |-> sign_name_from_longitude(moon_l),
     asc_sign |-> sign_name_from_longitude(asc_l)]

\* ------------------------------------------------------------- registry pieces
\* a lock that never excludes
MutexNeverHeld(holder) == TRUE

\* Mutex::lock blocks until no thread holds the lock.
MutexAvailable(holder) == holder = NoThread

\* appending to the old contents instead of replacing them
StoreAppendChar(s, i, c, n) == Append(s, c)

\* *guard = path.to_string(): the stored String takes the new contents.  The
\* assignment is not one indivisible write, which is why it sits inside the
\* critical section: character i of the n characters lands, and the last one
\* also sets the length.
StoreWriteChar(s, i, c, n) ==
    LET s1 == IF i <= Len(s) THEN [s EXCEPT ![i] = c] ELSE Append(s, c)
    IN  IF i = n THEN SubSeq(s1, 1, n) ELSE s1

\* a guard that is forgotten instead of dropped
GuardLeaked(holder) == holder

\* Dropping the MutexGuard (end of scope, early return, unwinding) unlocks.
GuardDropped(holder) == NoThread

\* std::mem::take on the guarded String: the read empties the store
StoreTaken(s) == EmptyPath

\* apply_ephe_path binds its guard immutably: the store stays as it is.
StoreAfterApply(s) == s

\* a read of a fresh, empty String instead of the guarded one
ApplyReadDefault(s) == EmptyPath

\* guard.as_str(): apply reads the stored path through its guard.
ApplyRead(s) == s

\* ------------------------------------------------------------- state
VARIABLES
    store,        \* EPHE_PATH: the String inside the Mutex
    poisoned,     \* the Mutex's poison flag
    lockHolder,   \* the thread holding the MutexGuard, or NoThread
    enginePath,   \* the engine's global ephemeris path slot
    pc,           \* each thread's position
    arg,          \* the running call's argument: a path or a BirthData
    wpos,         \* set_ephe_path: characters of the new String in place
    c_path,       \* the CString local of set_ephe_path / apply_ephe_path
    tjd_ut,       \* calculate_core_chart locals
    sun_long,
    moon_long,
    result,       \* what the finished call gave its caller
    calls,        \* history: the engine calls of the running invocation
    ncalls,       \* history: public calls started so far
    written,      \* history: paths that set_ephe_path calls stored
    completed,    \* history: paths whose set_ephe_path call returned
    prevConfigErr,\* history: the thread's previous call returned InvalidInput
    applied,      \* history: the stored path when the thread's apply pushed
    stale,        \* history: another call pushed to the engine after that
    prevCall,     \* history: the result of the call this one repeats
    answers,      \* the engine's answers so far, when it is a function
    sgn           \* sign mapper harness: inputs and outputs

vars == << store, poisoned, lockHolder, enginePath, pc, arg, wpos, c_path,
           tjd_ut, sun_long, moon_long, result, calls, ncalls, written,
           completed, prevConfigErr, applied, stale, prevCall, answers, sgn >>

regVars == << store, poisoned, lockHolder, enginePath >>
histVars == << written, completed, prevConfigErr, applied, stale, prevCall >>
calcLocals == << tjd_ut, sun_long, moon_long >>

\* positions of calculate_core_chart after its apply step has pushed
QueryPcs == {"jd", "sun", "moon", "asc"}
AfterApply == {"apply_unlock"} \cup QueryPcs

\* no earlier call to compare with
NoPrev == [again |-> FALSE, result |-> NoResult]

NoSgn == [lon |-> NaN, k |-> 0, a |-> "", b |-> "", state |-> "none"]

InitShared ==
    /\ store = EmptyPath
    /\ poisoned = FALSE
    /\ lockHolder = NoThread
    /\ enginePath = EngineUnset
    /\ pc = [t \in Threads |-> "idle"]
    /\ arg = [t \in Threads |-> NoArg]
    /\ wpos = [t \in Threads |-> 0]
    /\ c_path = [t \in Threads |-> EmptyPath]
    /\ tjd_ut = [t \in Threads |-> 0]
    /\ sun_long = [t \in Threads |-> NaN]
    /\ moon_long = [t \in Threads |-> NaN]
    /\ result = [t \in Threads |-> NoResult]
    /\ calls = [t \in Threads |-> <<>>]
    /\ ncalls = 0
    /\ written = {}
    /\ completed = {}
    /\ prevConfigErr = [t \in Threads |-> FALSE]
    /\ applied = [t \in Threads |-> EmptyPath]
    /\ stale = [t \in Threads |-> FALSE]
    /\ prevCall = [t \in Threads |-> NoPrev]
    /\ answers = {}

Init == InitShared /\ sgn = NoSgn

\* ------------------------------------------------------------- set_ephe_path
\* A call starts with fresh locals; its caller still knows how its previous
\* call ended.
Begin(t, first, a, again) ==
    /\ pc[t] = "idle"
    /\ pc' = [pc EXCEPT ![t] = first]
    /\ arg' = [arg EXCEPT ![t] = a]
    /\ prevConfigErr' = [prevConfigErr EXCEPT ![t] =
           result[t].tag = "Err" /\ result[t].kind = InvalidInput]
    /\ wpos' = [wpos EXCEPT ![t] = 0]
    /\ c_path' = [c_path EXCEPT ![t] = EmptyPath]
    /\ tjd_ut' = [tjd_ut EXCEPT ![t] = 0]
    /\ sun_long' = [sun_long EXCEPT ![t] = NaN]
    /\ moon_long' = [moon_long EXCEPT ![t] = NaN]
    /\ result' = [result EXCEPT ![t] = NoResult]
    /\ calls' = [calls EXCEPT ![t] = <<>>]
    /\ ncalls' = ncalls + 1
    /\ applied' = [applied EXCEPT ![t] = EmptyPath]
    /\ stale' = [stale EXCEPT ![t] = FALSE]
    /\ prevCall' = [prevCall EXCEPT ![t] =
           IF again THEN [again |-> TRUE, result |-> result[t]] ELSE NoPrev]
    /\ UNCHANGED << regVars, written, completed, sgn, answers >>

CallSet(t, limit, P) ==
    /\ ncalls < limit
    /\ \E p \in P : Begin(t, "set_lock", PathArg(p), FALSE)

\* .lock().expect(..): a poisoned mutex hands out its guard inside the error;
\* expect panics and the unwinding drops that guard again.
SetLock(t) ==
    /\ pc[t] = "set_lock"
    /\ MutexAvailable(lockHolder)
    /\ IF poisoned
       THEN /\ result' = [result EXCEPT ![t] = Panic("ephemeris path mutex poisoned")]
            /\ pc' = [pc EXCEPT ![t] = "idle"]
            /\ UNCHANGED lockHolder
       ELSE /\ lockHolder' = t
            /\ pc' = [pc EXCEPT ![t] = "set_write"]
            /\ UNCHANGED result
    /\ UNCHANGED << store, poisoned, enginePath, arg, wpos, c_path, calcLocals,
                    calls, ncalls, histVars, sgn, answers >>

SetWrite(t) ==
    /\ pc[t] = "set_write"
    /\ LET i == wpos[t] + 1
           n == Len(arg[t].path)
       IN  /\ store' = StoreWriteChar(store, i, arg[t].path[i], n)
           /\ wpos' = [wpos EXCEPT ![t] = i]
           /\ IF i = n
              THEN /\ pc' = [pc EXCEPT ![t] = "set_cstring"]
                   /\ written' = written \cup {arg[t].path}
              ELSE UNCHANGED << pc, written >>
    /\ UNCHANGED << poisoned, lockHolder, enginePath, arg, c_path, calcLocals,
                    result, calls, ncalls, completed, prevConfigErr, applied, stale, prevCall, sgn, answers >>

\* CString::new(path).expect(..): the panic unwinds through the live guard,
\* which poisons the mutex and releases it.
SetCString(t) ==
    /\ pc[t] = "set_cstring"
    /\ LET r == CStringNew(arg[t].path)
       IN  IF r.ok
           THEN /\ c_path' = [c_path EXCEPT ![t] = r.v]
                /\ pc' = [pc EXCEPT ![t] = "set_push"]
                /\ UNCHANGED << poisoned, lockHolder, result >>
           ELSE /\ poisoned' = TRUE
                /\ lockHolder' = GuardDropped(lockHolder)
                /\ result' = [result EXCEPT ![t] =
                       Panic("ephemeris path must not contain interior null bytes")]
                /\ pc' = [pc EXCEPT ![t] = "idle"]
                /\ UNCHANGED c_path
    /\ UNCHANGED << store, enginePath, arg, wpos, calcLocals, calls, ncalls,
                    histVars, sgn, answers >>

SetPush(t) ==
    /\ pc[t] = "set_push"
    /\ enginePath' = swe_set_ephe_path(enginePath, c_path[t])
    /\ stale' = [u \in Threads |-> IF u # t /\ pc[u] \in AfterApply THEN TRUE ELSE stale[u]]
    /\ pc' = [pc EXCEPT ![t] = "set_unlock"]
    /\ UNCHANGED << store, poisoned, lockHolder, arg, wpos, c_path, calcLocals,
                    result, calls, ncalls, written, completed, prevConfigErr,
                    applied, prevCall, sgn, answers >>

\* end of scope: the guard is dropped and the call returns
SetUnlock(t) ==
    /\ pc[t] = "set_unlock"
    /\ lockHolder' = GuardDropped(lockHolder)
    /\ result' = [result EXCEPT ![t] = Returned]
    /\ completed' = completed \cup {arg[t].path}
    /\ pc' = [pc EXCEPT ![t] = "idle"]
    /\ UNCHANGED << store, poisoned, enginePath, arg, wpos, c_path, calcLocals,
                    calls, ncalls, written, prevConfigErr, applied, stale, prevCall, sgn, answers >>

\* ------------------------------------------------------------- calculate_core_chart
\* One record of the history per engine call: the function, its arguments,
\* the engine's path slot while it ran, whether it reported failure
\* (status < 0) and, when it did not, the component the crate reads; when it
\* did, the serr buffer as the engine left it.
EngineCall(fn, args, failed, val, serr) ==
    [fn |-> fn, args |-> args, path |-> enginePath, failed |-> failed,
     val |-> IF failed THEN NaN ELSE val,
     serr |-> IF failed THEN serr ELSE NoSerr]

\* The engine answers out to the question (fn, args) under its configured
\* path; an engine that is a function answers as it answered before.
EngineAnswer(E, fn, args, out) ==
    LET key == [fn |-> fn, args |-> args, path |-> enginePath]
    IN  /\ E.memo => \A a \in answers : a.key = key => a.out = out
        /\ answers' = IF E.memo THEN answers \cup {[key |-> key, out |-> out]}
                       ELSE answers

CallCalc(t, limit, B) ==
    /\ ncalls < limit
    /\ \E b \in B : Begin(t, "apply_lock", BirthArg(b), FALSE)

\* The caller invokes calculate_core_chart a second time, straight after the
\* first returned, with the same BirthData.
CallCalcAgain(t, limit) ==
    /\ ncalls < limit
    /\ result[t].tag \in {"Ok", "Err"}
    /\ Begin(t, "apply_lock", arg[t], TRUE)

\* apply_ephe_path: .lock().map_err(..)?  A poisoned mutex becomes an
\* InvalidInput error; the guard inside the PoisonError is dropped.
ApplyLock(t) ==
    /\ pc[t] = "apply_lock"
    /\ MutexAvailable(lockHolder)
    /\ IF poisoned
       THEN /\ result' = [result EXCEPT ![t] =
                   Err(InvalidInput, "ephemeris path lock poisoned")]
            /\ pc' = [pc EXCEPT ![t] = "idle"]
            /\ UNCHANGED lockHolder
       ELSE /\ lockHolder' = t
            /\ pc' = [pc EXCEPT ![t] = "apply_cstring"]
            /\ UNCHANGED result
    /\ UNCHANGED << store, poisoned, enginePath, arg, wpos, c_path, calcLocals,
                    calls, ncalls, histVars, sgn, answers >>

\* CString::new(guard.as_str()).map_err(..)?  The early return drops the guard.
ApplyCString(t) ==
    /\ pc[t] = "apply_cstring"
    /\ LET r == CStringNew(ApplyRead(store))
       IN  IF r.ok
           THEN /\ c_path' = [c_path EXCEPT ![t] = r.v]
                /\ pc' = [pc EXCEPT ![t] = "apply_push"]
                /\ UNCHANGED << lockHolder, result >>
           ELSE /\ result' = [result EXCEPT ![t] =
                       Err(InvalidInput, "ephemeris path contains null byte")]
                /\ lockHolder' = GuardDropped(lockHolder)
                /\ pc' = [pc EXCEPT ![t] = "idle"]
                /\ UNCHANGED c_path
    /\ store' = StoreAfterApply(store)
    /\ UNCHANGED << poisoned, enginePath, arg, wpos, calcLocals, calls,
                    ncalls, histVars, sgn, answers >>

ApplyPush(t) ==
    /\ pc[t] = "apply_push"
    /\ enginePath' = swe_set_ephe_path(enginePath, c_path[t])
    /\ calls' = [calls EXCEPT ![t] =
           Append(@, [fn |-> "swe_set_ephe_path", args |-> <<>>,
                      path |-> enginePath', failed |-> FALSE, val |-> NaN,
                      serr |-> NoSerr])]
    /\ applied' = [applied EXCEPT ![t] = store]
    /\ stale' = [u \in Threads |->
           IF u = t THEN FALSE
           ELSE IF pc[u] \in AfterApply THEN TRUE ELSE stale[u]]
    /\ pc' = [pc EXCEPT ![t] = "apply_unlock"]
    /\ UNCHANGED << store, poisoned, lockHolder, arg, wpos, c_path, calcLocals,
                    result, ncalls, written, completed, prevConfigErr, prevCall, sgn, answers >>

\* apply_ephe_path returns Ok(()): its guard is dropped
ApplyUnlock(t) ==
    /\ pc[t] = "apply_unlock"
    /\ lockHolder' = GuardDropped(lockHolder)
    /\ pc' = [pc EXCEPT ![t] = "jd"]
    /\ UNCHANGED << store, poisoned, enginePath, arg, wpos, c_path, calcLocals,
                    result, calls, ncalls, histVars, sgn, answers >>

\* let tjd_ut = julian_day_ut(birth)?;
JulianDay(t, E) ==
    /\ pc[t] = "jd"
    /\ \E rc \in E.rcs, dret \in E.drets, serr \in E.serrs :
         LET b == arg[t].birth
             r == julian_day_ut(rc, dret, serr)
             q == << b.year, b.month, b.day, b.hour, b.minute, b.second, SE_GREG_CAL >>
         IN  /\ EngineAnswer(E, "swe_utc_to_jd", q, << rc, dret, serr >>)
             /\ calls' = [calls EXCEPT ![t] = Append(@, EngineCall("swe_utc_to_jd",
                    q, rc < 0, Num(dret[2]), serr))]
             /\ IF r.ok
                THEN /\ tjd_ut' = [tjd_ut EXCEPT ![t] = r.v]
                     /\ pc' = [pc EXCEPT ![t] = "sun"]
                     /\ UNCHANGED result
                ELSE /\ result' = [result EXCEPT ![t] = r.err]
                     /\ pc' = [pc EXCEPT ![t] = "idle"]
                     /\ UNCHANGED tjd_ut
    /\ UNCHANGED << regVars, arg, wpos, c_path, sun_long, moon_long, ncalls,
                    histVars, sgn >>

\* let sun_long = body_longitude(tjd_ut, ffi::SE_SUN)?;
SunLongitude(t, E) ==
    /\ pc[t] = "sun"
    /\ \E rc \in E.rcs, l \in E.lons, serr \in E.serrs :
         LET r == body_longitude(rc, XX(l), serr)
             q == << tjd_ut[t], SE_SUN, SEFLG_SWIEPH >>
         IN  /\ EngineAnswer(E, "swe_calc_ut", q, << rc, XX(l), serr >>)
             /\ calls' = [calls EXCEPT ![t] = Append(@, EngineCall("swe_calc_ut",
                    q, rc < 0, l, serr))]
             /\ IF r.ok
                THEN /\ sun_long' = [sun_long EXCEPT ![t] = r.v]
                     /\ pc' = [pc EXCEPT ![t] = "moon"]
                     /\ UNCHANGED result
                ELSE /\ result' = [result EXCEPT ![t] = r.err]
                     /\ pc' = [pc EXCEPT ![t] = "idle"]
                     /\ UNCHANGED sun_long
    /\ UNCHANGED << regVars, arg, wpos, c_path, tjd_ut, moon_long, ncalls,
                    histVars, sgn >>

\* let moon_long = body_longitude(tjd_ut, ffi::SE_MOON)?;
MoonLongitude(t, E) ==
    /\ pc[t] = "moon"
    /\ \E rc \in E.rcs, l \in E.lons, serr \in E.serrs :
         LET r == body_longitude(rc, XX(l), serr)
             q == << tjd_ut[t], SE_MOON, SEFLG_SWIEPH >>
         IN  /\ EngineAnswer(E, "swe_calc_ut", q, << rc, XX(l), serr >>)
             /\ calls' = [calls EXCEPT ![t] = Append(@, EngineCall("swe_calc_ut",
                    q, rc < 0, l, serr))]
             /\ IF r.ok
                THEN /\ moon_long' = [moon_long EXCEPT ![t] = r.v]
                     /\ pc' = [pc EXCEPT ![t] = "asc"]
                     /\ UNCHANGED result
                ELSE /\ result' = [result EXCEPT ![t] = r.err]
                     /\ pc' = [pc EXCEPT ![t] = "idle"]
                     /\ UNCHANGED moon_long
    /\ UNCHANGED << regVars, arg, wpos, c_path, tjd_ut, sun_long, ncalls,
                    histVars, sgn >>

\* let asc_long = ascendant_longitude(tjd_ut, birth.lat, birth.lon)?;
\* Ok(CoreChart { .. })
Ascendant(t, E) ==
    /\ pc[t] = "asc"
    /\ \E rc \in E.rcs, a \in E.lons :
         LET r == ascendant_longitude(rc, Ascmc(a))
             q == << tjd_ut[t], SEFLG_SWIEPH, arg[t].birth.lat, arg[t].birth.lon, HSYS_P >>
         IN  /\ EngineAnswer(E, "swe_houses_ex", q, << rc, Ascmc(a) >>)
             /\ calls' = [calls EXCEPT ![t] = Append(@, EngineCall("swe_houses_ex",
                    q, rc < 0, a, NoSerr))]
             /\ result' = [result EXCEPT ![t] =
                    IF r.ok THEN Ok(CoreChart(sun_long[t], moon_long[t], r.v))
                    ELSE r.err]
    /\ pc' = [pc EXCEPT ![t] = "idle"]
    /\ UNCHANGED << regVars, arg, wpos, c_path, calcLocals, ncalls, histVars, sgn >>

\* Threads call concurrently.
Next ==
    \E t \in Threads :
        \/ CallSet(t, MaxCalls, Paths)
        \/ SetLock(t)
        \/ SetWrite(t)
        \/ SetCString(t)
        \/ SetPush(t)
        \/ SetUnlock(t)
        \/ CallCalc(t, MaxCalls, ValidBirths)
        \/ ApplyLock(t)
        \/ ApplyCString(t)
        \/ ApplyPush(t)
        \/ ApplyUnlock(t)
        \/ JulianDay(t, PlainEngine)
        \/ SunLongitude(t, PlainEngine)
        \/ MoonLongitude(t, PlainEngine)
        \/ Ascendant(t, PlainEngine)

Spec == Init /\ [][Next]_vars

\* The steps of thread t inside a call it has started.
ThreadStep(t) ==
    \/ SetLock(t)
    \/ SetWrite(t)
    \/ SetCString(t)
    \/ SetPush(t)
    \/ SetUnlock(t)
    \/ ApplyLock(t)
    \/ ApplyCString(t)
    \/ ApplyPush(t)
    \/ ApplyUnlock(t)
    \/ JulianDay(t, PlainEngine)
    \/ SunLongitude(t, PlainEngine)
    \/ MoonLongitude(t, PlainEngine)
    \/ Ascendant(t, PlainEngine)

\* Every thread is an OS thread running synchronous code: the scheduler lets
\* it take its next step, and every engine call returns.  Nothing obliges a
\* caller to start another call.
\* Threads call concurrently, with one path that the engine can take, one
\* that it cannot, and one BirthData.
FairPaths == {[i \in 1..PathLen |-> "a"]} \cup InvalidPaths
FairBirths == {b \in ValidBirths : b.month = 1}

NextFair ==
    \E t \in Threads :
        \/ CallSet(t, MaxCalls, FairPaths)
        \/ CallCalc(t, MaxCalls, FairBirths)
        \/ ThreadStep(t)

SpecFair == Init /\ [][NextFair]_vars /\ \A t \in Threads : WF_vars(ThreadStep(t))

\* One caller makes its calls one after the other.
\* the single caller is the first thread
Caller == CHOOSE t \in Threads : \A u \in Threads : t <= u

NextChart ==
    \/ CallSet(Caller, MaxSeqCalls, Paths)
    \/ SetLock(Caller)
    \/ SetWrite(Caller)
    \/ SetCString(Caller)
    \/ SetPush(Caller)
    \/ SetUnlock(Caller)
    \/ CallCalc(Caller, MaxSeqCalls, Births)
    \/ ApplyLock(Caller)
    \/ ApplyCString(Caller)
    \/ ApplyPush(Caller)
    \/ ApplyUnlock(Caller)
    \/ JulianDay(Caller, FullEngine)
    \/ SunLongitude(Caller, FullEngine)
    \/ MoonLongitude(Caller, FullEngine)
    \/ Ascendant(Caller, FullEngine)

SpecChart == Init /\ [][NextChart]_vars

\* One caller, an engine that is a function of its arguments and its
\* configured path, and calls that are repeated.
NextRepeat ==
    \/ CallSet(Caller, MaxRepeatCalls, Paths)
    \/ SetLock(Caller)
    \/ SetWrite(Caller)
    \/ SetCString(Caller)
    \/ SetPush(Caller)
    \/ SetUnlock(Caller)
    \/ CallCalc(Caller, MaxRepeatCalls, ValidBirths)
    \/ CallCalcAgain(Caller, MaxRepeatCalls)
    \/ ApplyLock(Caller)
    \/ ApplyCString(Caller)
    \/ ApplyPush(Caller)
    \/ ApplyUnlock(Caller)
    \/ JulianDay(Caller, FunctionEngine)
    \/ SunLongitude(Caller, FunctionEngine)
    \/ MoonLongitude(Caller, FunctionEngine)
    \/ Ascendant(Caller, FunctionEngine)

SpecRepeat == Init /\ [][NextRepeat]_vars

\* ------------------------------------------------------------- sign mapper alone
\* The public sign_name_from_longitude, called on a longitude and on the
\* same longitude moved by k whole turns.
SignLons == {Num(n) : n \in -MaxLon..MaxLon} \cup {NaN, PosInf, NegInf}

InitSign ==
    /\ InitShared
    /\ \E l \in SignLons, k \in -MaxK..MaxK :
         sgn = [lon |-> l, k |-> k, a |-> "", b |-> "", state |-> "input"]

SignOfLon ==
    /\ sgn.state = "input"
    /\ sgn' = [sgn EXCEPT !.a = sign_name_from_longitude(sgn.lon), !.state = "mapped"]
    /\ UNCHANGED << regVars, pc, arg, wpos, c_path, calcLocals, result, calls,
                    ncalls, histVars, answers >>

SignOfShifted ==
    /\ sgn.state = "mapped"
    /\ sgn' = [sgn EXCEPT !.b = sign_name_from_longitude(F64Add(sgn.lon, 360 * sgn.k)),
                          !.state = "both"]
    /\ UNCHANGED << regVars, pc, arg, wpos, c_path, calcLocals, result, calls,
                    ncalls, histVars, answers >>

NextSign == SignOfLon \/ SignOfShifted

SpecSign == InitSign /\ [][NextSign]_vars

\* ============================================================= claims
Finished(t) == pc[t] = "idle" /\ result[t].tag # "None"
FinishedChart(t) == pc[t] = "idle" /\ result[t].tag \in {"Ok", "Err"}
FinishedSet(t) == pc[t] = "idle" /\ result[t].tag \in {"Returned", "Panic"}
Quiescent == \A t \in Threads : pc[t] = "idle"

\* the engine functions of one invocation, in the order of the source
StageFns == << "swe_set_ephe_path", "swe_utc_to_jd", "swe_calc_ut", "swe_calc_ut",
               "swe_houses_ex" >>
NoFailureIn(h, n) == \A i \in 1..n : ~h[i].failed

\* C1: calculate_core_chart short-circuits.  A finished invocation made its
\* engine calls in stage order; it returned Ok(chart) exactly when all five
\* stages ran and none failed; otherwise it returned an error and no chart,
\* the failed stage is the last one that ran (InvalidInput from apply: no
\* engine call at all), and every stage before it succeeded.
C1_ShortCircuit ==
    \A t \in Threads : FinishedChart(t) =>
        LET h == calls[t]
            n == Len(h)
            r == result[t]
        IN  /\ n <= Len(StageFns)
            /\ \A i \in 1..n : h[i].fn = StageFns[i]
            /\ (r.tag = "Ok") <=> (n = Len(StageFns) /\ NoFailureIn(h, n))
            /\ r.tag = "Ok" => r.chart # NoChart
            /\ r.tag = "Err" =>
                 /\ r.chart = NoChart
                 /\ \/ r.kind = InvalidInput /\ n = 0
                    \/ /\ r.kind = EphemerisError
                       /\ n >= 2
                       /\ h[n].failed
                       /\ NoFailureIn(h, n - 1)
                 /\ (r.text = "failed to compute ascendant") <=> (n = Len(StageFns))

\* the Sun query failed: the invocation ended there with an EphemerisError
C1_Witness ==
    /\ FinishedChart(Caller)
    /\ result[Caller].kind = EphemerisError
    /\ Len(calls[Caller]) = 3
    /\ calls[Caller][3].failed

\* the twelve signs of the data model
TwelveSigns ==
    { "aries", "taurus", "gemini", "cancer", "leo", "virgo",
      "libra", "scorpio", "sagittarius", "capricorn", "aquarius", "pisces" }

\* C2: every chart calculate_core_chart returns has its three signs among the
\* twelve, whatever longitudes the engine answered.
C2_SignsInSet ==
    \A t \in Threads : (FinishedChart(t) /\ result[t].tag = "Ok") =>
        /\ result[t].chart.sun_sign \in TwelveSigns
        /\ result[t].chart.moon_sign \in TwelveSigns
        /\ result[t].chart.asc_sign \in TwelveSigns

\* a chart from a negative Sun longitude, a Moon longitude of 360 and an
\* ascendant that is not a number
C2_Witness ==
    /\ FinishedChart(Caller)
    /\ result[Caller].tag = "Ok"
    /\ calls[Caller][3].val = Num(-10)
    /\ calls[Caller][4].val = Num(360)
    /\ calls[Caller][5].val = NaN

\* C3: once all concurrent set_ephe_path calls have finished, the stored
\* path is one of the paths those calls stored, whole (the initial empty path
\* when none stored anything).
C3_StoreIsOneWrite ==
    Quiescent => IF written = {} THEN store = EmptyPath ELSE store \in written

\* two threads have each completed a set_ephe_path with a different valid path
C3_Witness ==
    /\ Quiescent
    /\ completed = ValidPaths
    /\ \A t \in Threads : result[t] = Returned
    /\ store \in ValidPaths

\* C4 as claimed: whenever an invocation is about to run an engine query, the
\* engine's path slot holds the value this invocation's apply pushed.
C4_QueriesSeeOwnPath ==
    \A t \in Threads : pc[t] \in QueryPcs => enginePath = applied[t]

\* C4 as amended: the same, as long as no other set_ephe_path or apply call has
\* pushed a path to the engine since this invocation's apply; the value pushed
\* is the stored path as it was under apply's lock.
C4_QueriesSeeOwnPathUnlessOverwritten ==
    \A t \in Threads : (pc[t] \in QueryPcs /\ ~stale[t]) => enginePath = applied[t]

\* an invocation is at its Moon query, another thread's set_ephe_path ran
\* meanwhile but has not pushed yet, and the slot still holds this invocation's
\* non-empty path
C4_Witness ==
    \E t \in Threads, u \in Threads :
        /\ t # u
        /\ pc[t] \in QueryPcs
        /\ ~stale[t]
        /\ pc[u] \in {"set_cstring", "set_push"}
        /\ store # applied[t]
        /\ enginePath = applied[t]

\* C5: apply is atomic under the registry lock.  While an apply call is between
\* its read of the stored path and its push, no step changes the stored path or
\* the engine's slot, and the value it holds is still the stored path; and
\* whenever all calls have finished (valid paths only, at least one call made)
\* the engine's slot equals the stored path.
C5_ApplyAtomic ==
    [][ /\ \A t \in Threads :
              (pc[t] = "apply_push" /\ pc'[t] = "apply_push") =>
                  /\ store' = store
                  /\ enginePath' = enginePath
                  /\ c_path[t] = store
        /\ (Quiescent' /\ ncalls' > 0 /\ ~poisoned') => enginePath' = store'
      ]_vars

\* an apply call holds the lock between its read and its push while another
\* thread's set_ephe_path waits for the lock
C5_Witness ==
    \E t \in Threads, u \in Threads :
        /\ pc[t] = "apply_push"
        /\ lockHolder = t
        /\ pc[u] = "set_lock"

\* C6: when a single caller's set_ephe_path(p) has returned, the stored path
\* is p and the engine's slot is p, whatever was stored before.
C6_SetStoresAndPushes ==
    (pc[Caller] = "idle" /\ result[Caller] = Returned) =>
        (store = arg[Caller].path /\ enginePath = arg[Caller].path)

\* a set_ephe_path returned after an earlier one had stored the other path
C6_Witness ==
    /\ pc[Caller] = "idle"
    /\ result[Caller] = Returned
    /\ completed = ValidPaths
    /\ store = arg[Caller].path

\* C7 as claimed: a caller whose calculate_core_chart returned a ConfigError
\* (InvalidInput) then calls set_ephe_path with a valid path, and that call
\* completes normally.
C7_ConfigErrorRecoverable ==
    \A t \in Threads :
        (Finished(t) /\ prevConfigErr[t] /\ arg[t].path \in ValidPaths) =>
            result[t] = Returned

\* C8: the value apply has read from the store and pushes to the engine was
\* stored by a set_ephe_path call that returned, or is the initial empty path;
\* an apply that returned InvalidInput pushed nothing.
C8_ApplyPushesCompletedWrite ==
    \A t \in Threads :
        /\ pc[t] \in {"apply_push", "apply_unlock"} =>
               c_path[t] \in completed \cup {EmptyPath}
        /\ (FinishedChart(t) /\ result[t].kind = InvalidInput) => calls[t] = <<>>

\* a set_ephe_path failed on a path with an embedded NUL and left it in the
\* store; a calculate_core_chart then ran its apply step, which pushed nothing:
\* the engine's slot holds no such path
C8_Witness ==
    \E t \in Threads :
        /\ store \in InvalidPaths
        /\ FinishedChart(t)
        /\ result[t].kind = InvalidInput
        /\ enginePath \notin InvalidPaths

\* the sign table of the data model: sector i covers [30*i, 30*(i+1))
SectorSigns ==
    [i \in 0..11 |->
        CASE i = 0 -> "aries" [] i = 1 -> "taurus" [] i = 2 -> "gemini"
          [] i = 3 -> "cancer" [] i = 4 -> "leo" [] i = 5 -> "virgo"
          [] i = 6 -> "libra" [] i = 7 -> "scorpio" [] i = 8 -> "sagittarius"
          [] i = 9 -> "capricorn" [] i = 10 -> "aquarius" [] i = 11 -> "pisces"]

\* C9: for a longitude L of 0 <= L < 360 whole degrees, the sign is the one of
\* the sector i with 30*i <= L < 30*(i+1).
C9_SectorOfLongitude ==
    (sgn.state \in {"mapped", "both"} /\ sgn.lon.cls = "num"
        /\ sgn.lon.v >= 0 /\ sgn.lon.v < 360) =>
        \E i \in 0..11 :
            /\ 30 * i <= sgn.lon.v
            /\ sgn.lon.v < 30 * (i + 1)
            /\ sgn.a = SectorSigns[i]

\* 359 degrees, the last degree of the last sector, is mapped to pisces
C9_Witness ==
    /\ sgn.state = "mapped"
    /\ sgn.lon = Num(359)
    /\ sgn.a = "pisces"

\* C10: the sign of L and the sign of L + 360*k are the same for every finite
\* L and every integer k; -10 is mapped to pisces.
C10_Periodic ==
    /\ (sgn.state = "both" /\ sgn.lon.cls = "num") => sgn.a = sgn.b
    /\ (sgn.state \in {"mapped", "both"} /\ sgn.lon = Num(-10)) => sgn.a = "pisces"

\* -10 and -10 + 360 = 350 are both mapped to pisces
C10_Witness ==
    /\ sgn.state = "both"
    /\ sgn.lon = Num(-10)
    /\ sgn.k = 1
    /\ sgn.a = "pisces"
    /\ sgn.b = "pisces"

\* C11: when the engine's calendar-to-Julian-day call reports a negative
\* status, calculate_core_chart has returned an EphemerisError at once: no
\* panic, no chart, and no engine call after the failed one.
C11_InvalidDateIsEphemerisError ==
    \A t \in Threads :
        (Len(calls[t]) >= 2 /\ calls[t][2].fn = "swe_utc_to_jd" /\ calls[t][2].failed) =>
            /\ pc[t] = "idle"
            /\ result[t].tag = "Err"
            /\ result[t].kind = EphemerisError
            /\ result[t].chart = NoChart
            /\ Len(calls[t]) = 2

\* month 13 was passed to the engine, it refused, the caller holds the error
C11_Witness ==
    \E t \in Threads :
        /\ FinishedChart(t)
        /\ arg[t].birth.month = 13
        /\ Len(calls[t]) = 2
        /\ calls[t][2].args[2] = 13
        /\ calls[t][2].failed
        /\ result[t] = Err(EphemerisError, "err")

\* C12: with an engine that is a function of its arguments and its configured
\* path, calculate_core_chart called again with the same BirthData, straight
\* after the first call returned, returns what the first call returned: the
\* same chart or the same error.
C12_RepeatedCallSameResult ==
    \A t \in Threads :
        (FinishedChart(t) /\ prevCall[t].again) => result[t] = prevCall[t].result

\* a chart was returned twice, under a path set before the first call
C12_Witness ==
    \E t \in Threads :
        /\ FinishedChart(t)
        /\ prevCall[t].again
        /\ prevCall[t].result.tag = "Ok"
        /\ result[t].tag = "Ok"
        /\ enginePath \in ValidPaths

\* C13: set_ephe_path called with a path that holds a NUL panics, whatever
\* the state of the registry, and no path with a NUL ever reaches the
\* engine's set-path primitive: neither the CString built for it nor the
\* engine's path slot ever holds one.
C13_NulPathPanics ==
    /\ \A t \in Threads :
          (Finished(t) /\ arg[t].path \in InvalidPaths) => result[t].tag = "Panic"
    /\ \A t \in Threads : ~HasNul(c_path[t])
    /\ ~HasNul(enginePath)

\* the call panicked on the conversion: its path is in the store, the engine
\* was not told
C13_Witness ==
    \E t \in Threads :
        /\ FinishedSet(t)
        /\ arg[t].path \in InvalidPaths
        /\ result[t] = Panic("ephemeris path must not contain interior null bytes")
        /\ store = arg[t].path
        /\ enginePath # arg[t].path

\* C14: the apply step of calculate_core_chart never panics and never poisons
\* the lock; when it finds the lock poisoned, or the stored path with a NUL
\* in it, the invocation returns InvalidInput at that step, with the engine's
\* path as it was and no engine call made.
C14_ApplyFailsSoftly ==
    [][\A t \in Threads :
         LET ConfigError ==
                 /\ pc'[t] = "idle"
                 /\ result'[t].tag = "Err"
                 /\ result'[t].kind = InvalidInput
                 /\ result'[t].chart = NoChart
                 /\ enginePath' = enginePath
                 /\ calls'[t] = <<>>
         IN  /\ (pc[t] = "apply_lock" /\ pc'[t] # pc[t] /\ poisoned) => ConfigError
             /\ (pc[t] = "apply_cstring" /\ pc'[t] # pc[t] /\ HasNul(store)) => ConfigError
             /\ (pc[t] \in {"apply_lock", "apply_cstring", "apply_push", "apply_unlock"}
                    /\ pc'[t] # pc[t]) =>
                    /\ result'[t].tag # "Panic"
                    /\ poisoned' = poisoned
                    /\ (result'[t].tag = "Err" => ConfigError)]_vars

\* the lock was poisoned after a path had been set: the invocation returned
\* InvalidInput, made no engine call, and the engine still has the path set
\* before
C14_Witness ==
    \E t \in Threads :
        /\ FinishedChart(t)
        /\ arg[t].birth \in Births
        /\ poisoned
        /\ result[t] = Err(InvalidInput, "ephemeris path lock poisoned")
        /\ calls[t] = <<>>
        /\ enginePath \in ValidPaths
        /\ HasNul(store)

\* C15: at every moment of an invocation its engine calls so far are the
\* first calls of the sequence set-path, calendar-to-Julian-day, Sun, Moon,
\* houses, each made once and the invocation standing right behind the last
\* one; the Sun, Moon and houses calls were given the universal time that this
\* invocation's time conversion returned.
C15_OrderAndSharedTime ==
    \A t \in Threads :
        LET h == calls[t]
            n == Len(h)
        IN  /\ n <= Len(StageFns)
            /\ \A i \in 1..n : h[i].fn = StageFns[i]
            /\ pc[t] = "jd" => n = 1
            /\ pc[t] = "sun" => n = 2
            /\ pc[t] = "moon" => n = 3
            /\ pc[t] = "asc" => n = 4
            /\ n >= 3 => h[3].args[2] = SE_SUN
            /\ n >= 4 => h[4].args[2] = SE_MOON
            /\ \A i \in 3..n : ~h[2].failed /\ h[i].args[1] = h[2].val.v

\* all five calls were made, the last three with the second universal time
\* the engine can answer
C15_Witness ==
    \E t \in Threads :
        /\ FinishedChart(t)
        /\ Len(calls[t]) = 5
        /\ calls[t][2].val = Num(2448087)
        /\ calls[t][5].args[1] = 2448087
        /\ result[t].tag = "Ok"

\* C16: a returned chart is (sign of s, sign of m, sign of a) in the fields
\* sun_sign, moon_sign, asc_sign, where s is the first component the engine
\* answered to the Sun query, m the first component it answered to the Moon
\* query and a the first entry of ascmc answered to the houses call, and the
\* houses call was made with the latitude and longitude of the BirthData.
C16_ChartFromOwnQueries ==
    \A t \in Threads :
        (FinishedChart(t) /\ result[t].tag = "Ok") =>
            LET h == calls[t]
                c == result[t].chart
            IN  /\ h[3].args[2] = SE_SUN
                /\ h[4].args[2] = SE_MOON
                /\ h[5].args[3] = arg[t].birth.lat
                /\ h[5].args[4] = arg[t].birth.lon
                /\ c.sun_sign = sign_name_from_longitude(h[3].val)
                /\ c.moon_sign = sign_name_from_longitude(h[4].val)
                /\ c.asc_sign = sign_name_from_longitude(h[5].val)

\* three different longitudes gave three different signs, each in its field
C16_Witness ==
    \E t \in Threads :
        /\ FinishedChart(t)
        /\ result[t].tag = "Ok"
        /\ arg[t].birth.lat = 407128
        /\ calls[t][3].val = Num(45)
        /\ calls[t][4].val = Num(-10)
        /\ calls[t][5].val = Num(360)
        /\ result[t].chart = [sun_sign |-> "taurus", moon_sign |-> "pisces",
                                asc_sign |-> "aries"]

\* what each serr buffer of the engine says, read as text up to its terminator
DiagnosticTexts ==
    LET e4 == "eeee"
        e16 == e4 \o e4 \o e4 \o e4
        e64 == e16 \o e16 \o e16 \o e16
    IN  { << Buf(<<>>), "" >>,
          << Buf(<<"e", "r", "r">>), "err" >>,
          << Buf(<<"e", NUL, "r">>), "e" >>,
          << Buf(<<BadByte, "r">>), Replacement \o "r" >>,
          << [i \in 1..AS_MAXCH |-> "e"], e64 \o e64 \o e64 \o e64 >> }

\* C17: the text of a returned EphemerisError.  When the time conversion or
\* the Sun or Moon query failed it is the text the engine left in serr, or
\* "unknown Swiss Ephemeris error" when the engine left none; when the houses
\* call failed it is "failed to compute ascendant".
C17_ErrorText ==
    \A t \in Threads :
        (FinishedChart(t) /\ result[t].tag = "Err" /\ result[t].kind = EphemerisError) =>
            LET h == calls[t]
                n == Len(h)
            IN  /\ n \in 2..5
                /\ n = 5 => result[t].text = "failed to compute ascendant"
                /\ n < 5 =>
                      \E d \in DiagnosticTexts :
                          /\ d[1] = h[n].serr
                          /\ result[t].text =
                                IF d[2] = "" THEN "unknown Swiss Ephemeris error" ELSE d[2]

\* the Moon query failed and the engine left no text
C17_Witness ==
    \E t \in Threads :
        /\ FinishedChart(t)
        /\ Len(calls[t]) = 4
        /\ calls[t][4].failed
        /\ calls[t][4].serr = Buf(<<>>)
        /\ result[t] = Err(EphemerisError, "unknown Swiss Ephemeris error")

\* positions of a call between acquiring the registry lock and dropping its guard
LockedPcs == {"set_write", "set_cstring", "set_push", "set_unlock",
              "apply_cstring", "apply_push", "apply_unlock"}

\* C18: no step of calculate_core_chart changes the stored path, whatever the
\* invocation's outcome; a step that changes the store is set_ephe_path's
\* assignment to the guarded String.
C18_OnlySetWritesStore ==
    [][/\ \A t \in Threads :
            (pc[t] \in {"apply_lock", "apply_cstring", "apply_push", "apply_unlock"}
                        \cup QueryPcs /\ pc'[t] # pc[t]) => store' = store
       /\ store' # store =>
            \E t \in Threads : pc[t] = "set_write" /\ wpos'[t] = wpos[t] + 1]_vars

\* a chart was returned and the path set before is still the stored one
C18_Witness ==
    \E t \in Threads :
        /\ FinishedChart(t)
        /\ result[t].tag = "Ok"
        /\ completed # {}
        /\ store \in ValidPaths

\* C19: a thread holds the registry lock only between its lock call and the
\* end of set_ephe_path or apply_ephe_path, so never after a return, an
\* error return or a panic, and never during a time, Sun, Moon or houses
\* query; and with every thread scheduled fairly, every call that was
\* started finishes.
C19_LockReleasedCallsFinish ==
    /\ [](\A t \in Threads : lockHolder = t => pc[t] \in LockedPcs)
    /\ [](lockHolder \in Threads \cup {NoThread})
    /\ \A t \in Threads : (pc[t] # "idle") ~> (pc[t] = "idle")

\* one call has panicked inside its critical section and the lock is free
\* for the call of another thread that is about to take it
C19_Witness ==
    \E t \in Threads, u \in Threads :
        /\ t # u
        /\ pc[t] = "idle"
        /\ result[t] = Panic("ephemeris path must not contain interior null bytes")
        /\ pc[u] = "apply_lock"
        /\ lockHolder = NoThread

====
